---- MODULE Spec2Model ----
(***************************************************************************)
(* A model of services/main.js of strapi-plugin-config-sync: the file      *)
(* store operations (writeConfigFile, deleteConfigFile, readConfigFile),   *)
(* the two snapshot readers (getAllConfigFromFiles,                        *)
(* getAllConfigFromDatabase) and the orchestration (importAllConfig,       *)
(* importSingleConfig, exportAllConfig).                                   *)
(*                                                                         *)
(* Strings are sequences of one-character strings, so that the code's      *)
(* split / replace / join calls are computed as the code computes them.    *)
(* The destination prefix of every path is left out: the model has one     *)
(* destination directory, and every file in it has a name with a '.'       *)
(* before its extension.                                                   *)
(*                                                                         *)
(* The providers (services[type]) and the diff (utils/getObjectDiff) are   *)
(* collaborators of main.js: getAllFromDatabase returns the provider's     *)
(* store, importSingle writes one entry, exportAll sends every entry       *)
(* through writeConfigFile, and the diff tags every key that differs as    *)
(* created, updated or deleted.                                            *)
(***************************************************************************)
EXTENDS Bags, FiniteSets, Integers, Sequences, TLC

VARIABLES
  cfg,        \* strapi.plugins['config-sync'].config: [exclude, minify]
  destExists, \* fs.existsSync(config.destination)
  files,      \* the destination directory: file name -> bytes
  db,         \* per type, the provider's store: composite key -> content
  batch,      \* the top-level operation in flight or last finished
  filter,     \* its configType argument
  result,     \* the state of the promise it returned
  tasks,      \* the asynchronous operations it issued: id -> record
  calls,      \* the provider calls it made (a bag)
  last,       \* the last direct file-store call and its outcome
  failedIO,   \* the keys whose file write failed in this operation
  called,     \* a top-level call of the plugin has been made
  snapshot    \* the snapshot a reader called directly builds and returns

vars == <<cfg, destExists, files, db, batch, filter, result, tasks, calls,
          last, failedIO, called, snapshot>>

-----------------------------------------------------------------------------
(* Bounds of the model. *)

MaxFiles == 2      \* files an outside writer puts into the destination
MaxDb == 2         \* entries an outside writer puts into the database
MaxNameLen == 2    \* length of the names of the file-store specification

-----------------------------------------------------------------------------
(* Values. *)

Null == "null"                 \* JavaScript null (content)
NoFilter == <<>>               \* a falsy configType: null or ""
Undefined == <<"undefined">>   \* what `${undefined}` prints

T == <<"t">>
U == <<"u">>
X == <<"x">>
Types == {T, U, X}

\* config.include, in iteration order
include == <<T, U>>

Includes(type) == \E i \in 1..Len(include) : include[i] = type

Contents == {"c1", "c2"}

Json == <<"j", "s", "o", "n">>

-----------------------------------------------------------------------------
(* String helpers, as the JavaScript calls compute them. *)

\* s.replace(/from/g, to) for a one-character pattern
ReplaceAll(s, from, to) ==
  [i \in 1..Len(s) |-> IF s[i] = from THEN to ELSE s[i]]

\* configName.replace(":", "#"): the first ':' only
EncodeFirst(name) ==
  [i \in 1..Len(name) |->
     IF name[i] = ":" /\ \A j \in 1..(i-1) : name[j] # ":" THEN "#"
     ELSE name[i]]

\* configName.replace(/:/g, "#")
EncodeName(name) == ReplaceAll(name, ":", "#")

\* name.replace(/#/g, ":")
DecodeName(name) == ReplaceAll(name, "#", ":")

FirstDot(s) ==
  IF \E i \in 1..Len(s) : s[i] = "."
    THEN CHOOSE i \in 1..Len(s) : s[i] = "." /\ \A j \in 1..(i-1) : s[j] # "."
    ELSE 0

LastDot(s) ==
  IF \E i \in 1..Len(s) : s[i] = "."
    THEN CHOOSE i \in 1..Len(s) :
           s[i] = "." /\ \A j \in (i+1)..Len(s) : s[j] # "."
    ELSE 0

\* file.split('.')[0]
SplitType(s) ==
  LET i == FirstDot(s) IN IF i = 0 THEN s ELSE SubSeq(s, 1, i - 1)

\* file.split(/\.(.+)/)[1]: what follows the first '.', undefined when
\* nothing follows it
SplitRest(s) ==
  LET i == FirstDot(s)
  IN IF i = 0 \/ i = Len(s) THEN Undefined ELSE SubSeq(s, i + 1, Len(s))

\* rest.split('.').slice(0, -1).join('.')
DropExtension(s) ==
  LET i == LastDot(s) IN IF i = 0 THEN <<>> ELSE SubSeq(s, 1, i - 1)

\* `${type}.${name}`
Key(type, name) == type \o <<".">> \o name

\* `${destination}${type}.${name}.json`
Path(type, name) == type \o <<".">> \o name \o <<".">> \o Json

\* JSON.stringify(fileContents, null, 2) or JSON.stringify(fileContents)
Stringify(content, minify) ==
  IF minify THEN <<"min", content>> ELSE <<"pretty", content>>

\* JSON.parse(data); a SyntaxError is caught by readConfigFile
ParseOrNull(bytes) ==
  IF Len(bytes) = 2 /\ bytes[1] \in {"min", "pretty"} THEN bytes[2] ELSE Null

-----------------------------------------------------------------------------
(* Finite maps. *)

EmptyMap == [x \in {} |-> Null]

Put(m, k, v) == [x \in DOMAIN m \cup {k} |-> IF x = k THEN v ELSE m[x]]

Remove(m, k) == [x \in DOMAIN m \ {k} |-> m[x]]

-----------------------------------------------------------------------------
(* The policy and the file store. *)

\* the exclusion looked up after the ':' -> '#' replacement
ShouldExcludeEncoded(key) == ReplaceAll(key, ":", "#") \in cfg.exclude

\* config.exclude.includes(key)
ShouldExclude(key) == key \in cfg.exclude

\* the type and the name getAllConfigFromFiles reads off a file name
FileType(file) == SplitType(file)
FileName(file) == DropExtension(SplitRest(file))

\* readConfigFile with no catch handler: a failed read surfaces
ReadConfigFileNoCatch(configType, configName) ==
  LET path == Path(configType, EncodeName(configName))
  IN IF path \in DOMAIN files
       THEN (IF ParseOrNull(files[path]) = Null THEN "SyntaxError"
             ELSE ParseOrNull(files[path]))
       ELSE "ENOENT"

\* readConfigFile: the parsed content, null when the read or the parse fails
ReadConfigFile(configType, configName) ==
  LET path == Path(configType, EncodeName(configName))
  IN IF path \in DOMAIN files THEN ParseOrNull(files[path]) ELSE Null

\* a skip condition that lets the files of every type through
SkipFileOfListedTypeOnly(configType, type, name) ==
  \/ configType # NoFilter /\ configType # type
  \/ ShouldExclude(Key(type, name))

\* the condition under which getAllConfigFromFiles skips a file
SkipFile(configType, type, name) ==
  \/ configType # NoFilter /\ configType # type
  \/ ~Includes(type)
  \/ ShouldExclude(Key(type, name))

\* getAllConfigFromFiles(configType)
GetAllConfigFromFiles(configType) ==
  IF ~destExists THEN EmptyMap
  ELSE
    LET kept == {f \in DOMAIN files :
                   ~SkipFile(configType, FileType(f), FileName(f))}
        KeyOf(f) == Key(FileType(f), DecodeName(FileName(f)))
    IN [k \in {KeyOf(f) : f \in kept} |->
          LET f == CHOOSE g \in kept : KeyOf(g) = k
          IN ReadConfigFile(FileType(f), FileName(f))]

-----------------------------------------------------------------------------
(* The providers (services[type]) and the diff (utils/getObjectDiff). *)

\* services[type].getAllFromDatabase()
GetAllFromDatabase(type) == db[type]

\* services[type].importSingle(name, content): "write one"
ProviderImportSingle(type, name, content) ==
  [db EXCEPT ![type] = Put(@, Key(type, name), content)]

\* Object.assign(config, databaseConfigs): the accumulator's entries win
Assign(config, databaseConfigs) ==
  [k \in DOMAIN config \cup DOMAIN databaseConfigs |->
     IF k \in DOMAIN databaseConfigs THEN databaseConfigs[k] ELSE config[k]]

\* the included types a configType argument lets through
Matches(configType, type) == configType = NoFilter \/ configType = type

MatchingTypes(configType) ==
  {include[i] : i \in {j \in 1..Len(include) : Matches(configType, include[j])}}

\* the orders in which the providers' promises can resolve
Orders(configType) ==
  LET S == MatchingTypes(configType)
  IN {o \in [1..Cardinality(S) -> S] :
        \A i, j \in DOMAIN o : i # j => o[i] # o[j]}

\* getAllConfigFromDatabase(configType), the callbacks running in `order`
RECURSIVE MergeInOrder(_, _)
MergeInOrder(order, databaseConfigs) ==
  IF order = <<>> THEN databaseConfigs
  ELSE MergeInOrder(Tail(order),
                    Assign(GetAllFromDatabase(Head(order)), databaseConfigs))

GetAllConfigFromDatabase(configType, order) == MergeInOrder(order, EmptyMap)

\* difference(databaseConfig, fileConfig): the change of every key
Difference(old, new) ==
  LET changed == {k \in DOMAIN old \cup DOMAIN new :
                    \/ k \notin DOMAIN old
                    \/ k \notin DOMAIN new
                    \/ old[k] # new[k]}
  IN [k \in changed |->
        IF k \notin DOMAIN old THEN "created"
        ELSE IF k \notin DOMAIN new THEN "deleted"
        ELSE "updated"]

-----------------------------------------------------------------------------
(* The state of the operation in flight. *)

Pending == {"read", "apply", "export"}
Finished == {"done", "failed"}

\* no asynchronous operation is pending
Idle == \A k \in DOMAIN tasks : tasks[k].pc \in Finished

\* a behaviour is a set-up by the outside writers, then one top-level call
\* of the plugin and the asynchronous operations it issues
Start ==
  /\ ~called
  /\ called' = TRUE

\* a record of a direct call: its arguments, whether it changed a file and
\* whether it threw
LastCall(op, type, name, content, wrote, threw) ==
  [op |-> op, type |-> type, name |-> name, content |-> content,
   wrote |-> wrote, threw |-> threw]

NoCall == LastCall("none", <<>>, <<>>, Null, FALSE, FALSE)

Call(op, type, name, content) ==
  [op |-> op, type |-> type, name |-> name, content |-> content]

\* a new top-level call forgets the previous one
Forget ==
  /\ batch' = "none"
  /\ filter' = NoFilter
  /\ result' = "none"
  /\ tasks' = EmptyMap
  /\ calls' = EmptyBag
  /\ failedIO' = {}
  /\ snapshot' = EmptyMap

DbSize == Cardinality(UNION {{<<t, k>> : k \in DOMAIN db[t]} : t \in Types})

-----------------------------------------------------------------------------
(* Writers outside the plugin: the files of a checkout, the admin panel. *)

PutFile(file, bytes) ==
  /\ ~called
  /\ file \notin DOMAIN files
  /\ Cardinality(DOMAIN files) < MaxFiles
  /\ files' = Put(files, file, bytes)
  /\ destExists' = TRUE
  /\ last' = NoCall
  /\ Forget
  /\ UNCHANGED <<cfg, db, called>>

DbPut(type, name, content) ==
  /\ ~called
  /\ Key(type, name) \notin DOMAIN db[type]
  /\ DbSize < MaxDb
  /\ db' = ProviderImportSingle(type, name, content)
  /\ last' = NoCall
  /\ Forget
  /\ UNCHANGED <<cfg, destExists, files, called>>

-----------------------------------------------------------------------------
(* The file store operations, called directly. *)

\* what writeConfigFile makes of the files `store`; `ok` is the outcome of
\* fs.writeFile, whose failure the empty catch handler discards
WriteEffect(store, configType, configName, fileContents, ok) ==
  IF ShouldExclude(Key(configType, configName)) \/ ~ok
    THEN store
    ELSE Put(store, Path(configType, EncodeName(configName)),
             Stringify(fileContents, cfg.minify))

\* fs.mkdirSync(destination) of writeConfigFile
MkdirEffect(configType, configName) ==
  destExists \/ ~ShouldExclude(Key(configType, configName))

WriteConfigFile(configType, configName, fileContents) ==
  /\ Start
  /\ \/ Path(configType, EncodeName(configName)) \in DOMAIN files
     \/ Cardinality(DOMAIN files) < MaxFiles
  /\ \E ok \in BOOLEAN :
       /\ files' = WriteEffect(files, configType, configName, fileContents, ok)
       /\ last' = LastCall("writeConfigFile", configType, configName,
                            fileContents,
                            ok /\ ~ShouldExclude(Key(configType, configName)),
                            FALSE)
  /\ destExists' = MkdirEffect(configType, configName)
  /\ Forget
  /\ UNCHANGED <<cfg, db>>

\* a deleteConfigFile that discards the failure of the delete
DeleteConfigFileQuiet(configName) ==
  /\ Start
  /\ LET path == EncodeName(configName) \o <<".">> \o Json
         hit == ~ShouldExclude(configName) /\ path \in DOMAIN files
     IN /\ files' = IF hit THEN Remove(files, path) ELSE files
        /\ last' = LastCall("deleteConfigFile", SplitType(configName),
                            SplitRest(configName), Null, hit, FALSE)
  /\ Forget
  /\ UNCHANGED <<cfg, destExists, db>>

\* deleteConfigFile(configName), configName being the composite key:
\* fs.unlinkSync throws when the file is absent
DeleteConfigFile(configName) ==
  /\ Start
  /\ LET path == EncodeName(configName) \o <<".">> \o Json
         hit == ~ShouldExclude(configName) /\ path \in DOMAIN files
         miss == ~ShouldExclude(configName) /\ path \notin DOMAIN files
     IN /\ files' = IF hit THEN Remove(files, path) ELSE files
        /\ last' = LastCall("deleteConfigFile", SplitType(configName),
                            SplitRest(configName), Null, hit, miss)
  /\ Forget
  /\ UNCHANGED <<cfg, destExists, db>>

-----------------------------------------------------------------------------
(* importAllConfig and importSingleConfig. *)

Task(pc, type, name, kind) ==
  [pc |-> pc, type |-> type, name |-> name, kind |-> kind, content |-> Null]

\* importSingleConfig(type, name) up to its first suspension: no task when
\* the key is excluded; readConfigFile throws on an undefined name
IssueImportSingle(type, name, kind) ==
  IF ShouldExclude(Key(type, name)) THEN {}
  ELSE IF name = Undefined THEN {Task("failed", type, name, kind)}
  ELSE {Task("read", type, name, kind)}

\* an import that applies the keys of every type of the diff
ImportKeysOfAllTypes(diff, configType) ==
  {file \in DOMAIN diff :
     IssueImportSingle(SplitType(file), SplitRest(file), diff[file]) # {}}

\* the keys of the diff importAllConfig calls importSingleConfig for
ImportKeys(diff, configType) ==
  {file \in DOMAIN diff :
     /\ ~(configType # NoFilter /\ configType # SplitType(file))
     /\ IssueImportSingle(SplitType(file), SplitRest(file), diff[file]) # {}}

\* importAllConfig(configType): both snapshots, the diff, and one
\* importSingleConfig call per key, none of them awaited. `dbOk` is the
\* outcome of the providers' getAllFromDatabase: a rejection rejects
\* importAllConfig before the diff
ImportAllConfig(configType, dbOk) ==
  /\ Start
  /\ \E order \in Orders(NoFilter) :
       LET fileConfig == GetAllConfigFromFiles(NoFilter)
           databaseConfig == GetAllConfigFromDatabase(NoFilter, order)
           diff == Difference(databaseConfig, fileConfig)
       IN tasks' = IF dbOk
                     THEN [file \in ImportKeys(diff, configType) |->
                             CHOOSE t \in IssueImportSingle(SplitType(file),
                                            SplitRest(file), diff[file]) : TRUE]
                     ELSE EmptyMap
  /\ batch' = "importAll"
  /\ filter' = configType
  /\ result' = IF dbOk THEN "ok" ELSE "error"
  /\ calls' = EmptyBag
  /\ failedIO' = {}
  /\ last' = NoCall
  /\ UNCHANGED <<cfg, destExists, files, db, snapshot>>

\* importSingleConfig(configType, configName), called directly
ImportSingleConfig(configType, configName) ==
  /\ Start
  /\ LET issued == IssueImportSingle(configType, configName, "single")
     IN /\ tasks' = [k \in {Key(configType, configName) : t \in issued} |->
                       CHOOSE t \in issued : TRUE]
        /\ result' = IF issued = {} THEN "ok" ELSE "pending"
  /\ batch' = "importSingle"
  /\ filter' = NoFilter
  /\ calls' = EmptyBag
  /\ failedIO' = {}
  /\ last' = LastCall("importSingleConfig", configType, configName, Null,
                       FALSE, FALSE)
  /\ UNCHANGED <<cfg, destExists, files, db, snapshot>>

\* an importSingleConfig that reads the file under the name as given
TaskReadRaw(k) ==
  /\ k \in DOMAIN tasks
  /\ tasks[k].pc = "read"
  /\ LET t == tasks[k]
         path == Path(t.type, t.name)
         fileContents == IF path \in DOMAIN files
                           THEN ParseOrNull(files[path]) ELSE Null
     IN /\ tasks' = [tasks EXCEPT ![k].pc = "apply",
                                  ![k].content = fileContents]
        /\ calls' = calls (+) SetToBag({Call("importSingle", t.type, t.name,
                                             fileContents)})
  /\ UNCHANGED <<cfg, destExists, files, db, batch, filter, result, last,
                 failedIO, called, snapshot>>

\* readConfigFile resolves inside importSingleConfig, which then calls the
\* provider's importSingle
TaskRead(k) ==
  /\ k \in DOMAIN tasks
  /\ tasks[k].pc = "read"
  /\ LET t == tasks[k]
         fileContents == ReadConfigFile(t.type, t.name)
     IN /\ tasks' = [tasks EXCEPT ![k].pc = "apply",
                                  ![k].content = fileContents]
        /\ calls' = calls (+) SetToBag({Call("importSingle", t.type, t.name,
                                             fileContents)})
  /\ UNCHANGED <<cfg, destExists, files, db, batch, filter, result, last,
                 failedIO, called, snapshot>>

\* a failure that takes the other pending operations down with it
TaskApplyAbort(k, ok) ==
  /\ k \in DOMAIN tasks
  /\ tasks[k].pc = "apply"
  /\ LET t == tasks[k]
     IN db' = IF ok THEN ProviderImportSingle(t.type, t.name, t.content)
              ELSE db
  /\ tasks' = [x \in DOMAIN tasks |->
                 IF x = k THEN [tasks[x] EXCEPT !.pc = IF ok THEN "done"
                                                      ELSE "failed"]
                 ELSE IF ~ok /\ tasks[x].pc \in {"read", "apply"}
                   THEN [tasks[x] EXCEPT !.pc = "failed"]
                 ELSE tasks[x]]
  /\ result' = IF batch = "importSingle"
                 THEN (IF ok THEN "ok" ELSE "error")
                 ELSE result
  /\ UNCHANGED <<cfg, destExists, files, batch, filter, calls, last,
                 failedIO, called, snapshot>>

\* the provider's importSingle settles
TaskApply(k, ok) ==
  /\ k \in DOMAIN tasks
  /\ tasks[k].pc = "apply"
  /\ LET t == tasks[k]
     IN db' = IF ok THEN ProviderImportSingle(t.type, t.name, t.content)
              ELSE db
  /\ tasks' = [tasks EXCEPT ![k].pc = IF ok THEN "done" ELSE "failed"]
  /\ result' = IF batch = "importSingle"
                 THEN (IF ok THEN "ok" ELSE "error")
                 ELSE result
  /\ UNCHANGED <<cfg, destExists, files, batch, filter, calls, last,
                 failedIO, called, snapshot>>

-----------------------------------------------------------------------------
(* exportAllConfig. *)

\* services[type].exportAll(): every entry of the type goes through
\* writeConfigFile; the writes of the keys in `bad` fail
RECURSIVE ExportWrites(_, _, _, _)
ExportWrites(store, type, keys, bad) ==
  IF keys = {} THEN store
  ELSE LET k == CHOOSE x \in keys : TRUE
       IN ExportWrites(
            WriteEffect(store, type, SplitRest(k), db[type][k], k \notin bad),
            type, keys \ {k}, bad)

\* exportAllConfig(configType): one exportAll per matching included type,
\* joined by Promise.all
ExportAllConfig(configType) ==
  /\ Start
  /\ tasks' = [type \in MatchingTypes(configType) |->
                 Task("export", type, <<>>, "export")]
  /\ calls' = SetToBag({Call("exportAll", type, <<>>, Null) :
                          type \in MatchingTypes(configType)})
  /\ batch' = "exportAll"
  /\ filter' = configType
  /\ result' = IF MatchingTypes(configType) = {} THEN "ok" ELSE "pending"
  /\ failedIO' = {}
  /\ last' = NoCall
  /\ UNCHANGED <<cfg, destExists, files, db, snapshot>>

\* a join that resolves with the first exportAll that resolves
JoinFirst(type, ok) ==
  IF result # "pending" THEN result
  ELSE IF ok THEN "ok" ELSE "error"

\* how Promise.all settles when the task of `type` settles
JoinResult(type, ok) ==
  IF result # "pending" THEN result
  ELSE IF ~ok THEN "error"
  ELSE IF \A k \in DOMAIN tasks \ {type} : tasks[k].pc = "done" THEN "ok"
  ELSE "pending"

\* the exportAll of one type settles
ExportTask(type, ok, bad) ==
  /\ type \in DOMAIN tasks
  /\ tasks[type].pc = "export"
  /\ bad \subseteq {k \in DOMAIN db[type] : ~ShouldExclude(k)}
  /\ ok \/ bad = {}
  /\ files' = IF ok THEN ExportWrites(files, type, DOMAIN db[type], bad)
              ELSE files
  /\ destExists' = (destExists \/
                      (ok /\ \E k \in DOMAIN db[type] : ~ShouldExclude(k)))
  /\ failedIO' = failedIO \cup bad
  /\ tasks' = [tasks EXCEPT ![type].pc = IF ok THEN "done" ELSE "failed"]
  /\ result' = JoinResult(type, ok)
  /\ UNCHANGED <<cfg, db, batch, filter, calls, last, called, snapshot>>

-----------------------------------------------------------------------------
(* The readers, called directly. *)

\* readConfigFile(configType, configName): the catch handler turns every
\* failure into null, nothing is written
ReadConfigFileCall(configType, configName) ==
  /\ Start
  /\ last' = LastCall("readConfigFile", configType, configName,
                       ReadConfigFile(configType, configName), FALSE, FALSE)
  /\ Forget
  /\ UNCHANGED <<cfg, destExists, files, db>>

\* the file-system calls of getAllConfigFromFiles(configType): none when the
\* destination does not exist, else readdirSync and one readFile per file
\* that is not skipped
FsCalls(configType) ==
  IF ~destExists THEN EmptyBag
  ELSE SetToBag({Call("readdir", <<>>, <<>>, Null)} \cup
                {Call("readFile", FileType(f), FileName(f), Null) :
                   f \in {g \in DOMAIN files :
                            ~SkipFile(configType, FileType(g), FileName(g))}})

\* getAllConfigFromFiles(configType), called directly
GetAllConfigFromFilesCall(configType) ==
  /\ Start
  /\ snapshot' = GetAllConfigFromFiles(configType)
  /\ calls' = FsCalls(configType)
  /\ batch' = "getAllConfigFromFiles"
  /\ filter' = configType
  /\ result' = "ok"
  /\ tasks' = EmptyMap
  /\ failedIO' = {}
  /\ last' = NoCall
  /\ UNCHANGED <<cfg, destExists, files, db>>

\* getAllConfigFromDatabase(configType), called directly: one callback per
\* included type that matches, each suspended at its provider's
\* getAllFromDatabase, joined by Promise.all; databaseConfigs starts empty
GetAllConfigFromDatabaseCall(configType) ==
  /\ Start
  /\ snapshot' = EmptyMap
  /\ tasks' = [type \in MatchingTypes(configType) |->
                 Task("list", type, <<>>, "list")]
  /\ calls' = SetToBag({Call("getAllFromDatabase", type, <<>>, Null) :
                          type \in MatchingTypes(configType)})
  /\ batch' = "getAllConfigFromDatabase"
  /\ filter' = configType
  /\ result' = IF MatchingTypes(configType) = {} THEN "ok" ELSE "pending"
  /\ failedIO' = {}
  /\ last' = NoCall
  /\ UNCHANGED <<cfg, destExists, files, db>>

\* a callback that merges into the databaseConfigs it saw when it started
GetAllFromDatabaseResolveStale(type, ok) ==
  /\ type \in DOMAIN tasks
  /\ tasks[type].pc = "list"
  /\ snapshot' = IF ok THEN Assign(GetAllFromDatabase(type), EmptyMap)
                  ELSE snapshot
  /\ tasks' = [tasks EXCEPT ![type].pc = IF ok THEN "done" ELSE "failed"]
  /\ result' = JoinResult(type, ok)
  /\ UNCHANGED <<cfg, destExists, files, db, batch, filter, calls, last,
                 failedIO, called>>

\* the getAllFromDatabase of one type settles and its callback runs to its
\* end: it reads and reassigns databaseConfigs with no suspension between
GetAllFromDatabaseResolve(type, ok) ==
  /\ type \in DOMAIN tasks
  /\ tasks[type].pc = "list"
  /\ snapshot' = IF ok THEN Assign(GetAllFromDatabase(type), snapshot)
                  ELSE snapshot
  /\ tasks' = [tasks EXCEPT ![type].pc = IF ok THEN "done" ELSE "failed"]
  /\ result' = JoinResult(type, ok)
  /\ UNCHANGED <<cfg, destExists, files, db, batch, filter, calls, last,
                 failedIO, called>>

-----------------------------------------------------------------------------
(* The specification of the orchestration. *)

\* the names of the configs of the model
Names == {<<"a">>, <<"a", ":", "b">>}

\* the policies of the model
Configs ==
  {[exclude |-> {}, minify |-> FALSE],
   [exclude |-> {Key(T, <<"a", ":", "b">>), Key(U, <<"a">>)}, minify |-> TRUE]}

\* what an outside writer puts into the destination
ExternalFiles ==
  {Path(T, <<"a">>), Path(T, <<"a", "#", "b">>), Path(U, <<"a">>),
   Path(X, <<"a">>)}

ExternalBytes == {Stringify("c1", FALSE), <<"garbage">>}

Filters == {NoFilter, T, U}

Init ==
  /\ cfg \in Configs
  /\ destExists = FALSE
  /\ files = EmptyMap
  /\ db = [t \in Types |-> EmptyMap]
  /\ batch = "none"
  /\ filter = NoFilter
  /\ result = "none"
  /\ tasks = EmptyMap
  /\ calls = EmptyBag
  /\ last = NoCall
  /\ failedIO = {}
  /\ called = FALSE
  /\ snapshot = EmptyMap

Next ==
  \/ \E file \in ExternalFiles, bytes \in ExternalBytes : PutFile(file, bytes)
  \/ \E type \in {T, U}, name \in Names, content \in Contents :
       DbPut(type, name, content)
  \/ \E type \in {T, U}, name \in Names, content \in Contents :
       WriteConfigFile(type, name, content)
  \/ \E type \in {T, U}, name \in Names : DeleteConfigFile(Key(type, name))
  \/ \E configType \in Filters, dbOk \in BOOLEAN :
       ImportAllConfig(configType, dbOk)
  \/ \E type \in {T, U}, name \in Names : ImportSingleConfig(type, name)
  \/ \E k \in DOMAIN tasks : TaskRead(k)
  \/ \E k \in DOMAIN tasks, ok \in BOOLEAN : TaskApply(k, ok)
  \/ \E configType \in Filters : ExportAllConfig(configType)
  \/ \E type \in {T, U}, ok \in BOOLEAN :
       \E bad \in SUBSET DOMAIN db[type] : ExportTask(type, ok, bad)

Spec == Init /\ [][Next]_vars

-----------------------------------------------------------------------------
(* The specification of the file store: the names are all the strings of   *)
(* at most MaxNameLen characters over Alphabet.                             *)

Alphabet == {"a", ":", ".", "#"}

AllNames == UNION {[1..n -> Alphabet] : n \in 0..MaxNameLen}

\* a valid name holds no '#'
ValidName(name) == \A i \in 1..Len(name) : name[i] # "#"

NextFiles ==
  \/ \E file \in ExternalFiles, bytes \in ExternalBytes : PutFile(file, bytes)
  \/ \E type \in {T, U}, name \in AllNames, content \in Contents :
       WriteConfigFile(type, name, content)
  \/ \E type \in {T, U}, name \in AllNames : DeleteConfigFile(Key(type, name))
  \/ \E type \in {T, U}, name \in AllNames : ReadConfigFileCall(type, name)
  \/ \E configType \in Filters \cup {X} : GetAllConfigFromFilesCall(configType)

SpecFiles == Init /\ [][NextFiles]_vars

-----------------------------------------------------------------------------
(* The specification of the database reader: a provider may hold any key   *)
(* of DbKeys, so that two providers can return the same composite key.     *)

DbKeys == {Key(T, <<"a">>), Key(T, <<"a", ":", "b">>), Key(U, <<"a">>)}

\* the admin panel makes the provider of `type` hold `key`
DbPutKey(type, key, content) ==
  /\ ~called
  /\ key \notin DOMAIN db[type]
  /\ DbSize < MaxDb
  /\ db' = [db EXCEPT ![type] = Put(@, key, content)]
  /\ last' = NoCall
  /\ Forget
  /\ UNCHANGED <<cfg, destExists, files, called>>

NextDb ==
  \/ \E type \in Types, key \in DbKeys, content \in Contents :
       DbPutKey(type, key, content)
  \/ \E configType \in Filters \cup {X} :
       GetAllConfigFromDatabaseCall(configType)
  \/ \E type \in {T, U}, ok \in BOOLEAN : GetAllFromDatabaseResolve(type, ok)

SpecDb == Init /\ [][NextDb]_vars

-----------------------------------------------------------------------------
(* The specification of the included types: a file and a database entry of *)
(* a type outside config.include exist while the readers and the import    *)
(* run.                                                                     *)

NextInclude ==
  \/ \E file \in ExternalFiles, bytes \in ExternalBytes : PutFile(file, bytes)
  \/ \E type \in {T, U}, name \in Names, content \in Contents :
       DbPut(type, name, content)
  \/ DbPut(X, <<"a">>, "c1")
  \/ \E configType \in Filters \cup {X} : GetAllConfigFromFilesCall(configType)
  \/ \E configType \in Filters \cup {X} :
       GetAllConfigFromDatabaseCall(configType)
  \/ \E type \in {T, U}, ok \in BOOLEAN : GetAllFromDatabaseResolve(type, ok)
  \/ \E configType \in Filters \cup {X}, dbOk \in BOOLEAN :
       ImportAllConfig(configType, dbOk)
  \/ \E k \in DOMAIN tasks : TaskRead(k)
  \/ \E k \in DOMAIN tasks, ok \in BOOLEAN : TaskApply(k, ok)

SpecInclude == Init /\ [][NextInclude]_vars

-----------------------------------------------------------------------------
(* What the properties speak of. *)

AllDone == \A k \in DOMAIN tasks : tasks[k].pc = "done"

FileSnapshot == GetAllConfigFromFiles(NoFilter)

DatabaseSnapshots ==
  {GetAllConfigFromDatabase(NoFilter, order) : order \in Orders(NoFilter)}

\* a key of an included type that the policy does not exclude
Managed(k) == Includes(SplitType(k)) /\ k \notin cfg.exclude

\* the provider calls of kind `op` made for the task t
CallsFor(op, t) ==
  {c \in BagToSet(calls) : c.op = op /\ c.type = t.type /\ c.name = t.name}

\* the keys an importAllConfig(configType) started now would apply
WouldImport(configType) ==
  UNION {ImportKeys(Difference(D, FileSnapshot), configType) :
           D \in DatabaseSnapshots}

-----------------------------------------------------------------------------
(* C1..C10 *)

\* C1: once importAllConfig() with no type filter and every apply it issued
\* have finished successfully, the database snapshot and the file snapshot
\* agree on every managed key: the same keys, the same content.
C1_Convergence ==
  (batch = "importAll" /\ filter = NoFilter /\ result = "ok" /\ AllDone) =>
    \A D \in DatabaseSnapshots :
      \A k \in DOMAIN D \cup DOMAIN FileSnapshot :
        Managed(k) =>
          k \in DOMAIN D /\ k \in DOMAIN FileSnapshot /\ D[k] = FileSnapshot[k]

\* C2: for a key the diff reports as deleted, importAllConfig invokes the
\* provider's delete-one and does not invoke its importSingle.
C2_DeleteOne ==
  (batch = "importAll" /\ Idle) =>
    \A k \in DOMAIN tasks :
      tasks[k].kind = "deleted" =>
        /\ CallsFor("deleteSingle", tasks[k]) # {}
        /\ CallsFor("importSingle", tasks[k]) = {}

\* C3: when the file snapshot equals the database snapshot, importAllConfig
\* applies nothing for any type filter; and right after a completed
\* importAllConfig() a second run applies nothing.
C3_Idempotence ==
  \A configType \in Filters :
    /\ (\A D \in DatabaseSnapshots : D = FileSnapshot) =>
         WouldImport(configType) = {}
    /\ (batch = "importAll" /\ filter = NoFilter /\ result = "ok" /\ AllDone) =>
         WouldImport(configType) = {}

\* C4: no key of the exclude set is a key of what getAllConfigFromFiles
\* returns, whatever the files and the type filter.
C4_FilesExclusion ==
  \A k \in cfg.exclude, configType \in Filters :
    k \notin DOMAIN GetAllConfigFromFiles(configType)

\* C5: no key of the exclude set is a key of what getAllConfigFromDatabase
\* returns, whatever the providers return.
C5_DatabaseExclusion ==
  \A k \in cfg.exclude, configType \in Filters :
    \A order \in Orders(configType) :
      k \notin DOMAIN GetAllConfigFromDatabase(configType, order)

\* C6: writeConfigFile, deleteConfigFile and importSingleConfig on an
\* excluded key return normally, change no file and call no provider; and
\* no step of an import issues a task or a provider call for an excluded key
\* or changes its database entry.
C6_ExcludedNoOp ==
  [][/\ (/\ called' /\ ~called
         /\ last'.op \in {"writeConfigFile", "deleteConfigFile",
                          "importSingleConfig"}
         /\ Key(last'.type, last'.name) \in cfg.exclude)
        => /\ files' = files
           /\ destExists' = destExists
           /\ db' = db
           /\ tasks' = EmptyMap
           /\ calls' = EmptyBag
           /\ ~last'.threw
           /\ result' \in {"none", "ok"}
     /\ batch' \in {"importAll", "importSingle"}
        => /\ files' = files
           /\ \A k \in cfg.exclude :
                /\ k \notin DOMAIN tasks'
                /\ \A c \in BagToSet(calls') : Key(c.type, c.name) # k
                /\ \A t \in Types :
                     /\ k \in DOMAIN db'[t] <=> k \in DOMAIN db[t]
                     /\ k \in DOMAIN db[t] => db'[t][k] = db[t][k]
    ]_vars

\* an excluded key was written through writeConfigFile while the
\* destination held files
W6_ExcludedWrite ==
  /\ last.op = "writeConfigFile"
  /\ Key(last.type, last.name) \in cfg.exclude
  /\ files # EmptyMap

\* C7: after writeConfigFile(type, name, content) has written the file of an
\* included type and a name without '#', the file is read back under exactly
\* the key type.name with the written content, by getAllConfigFromFiles
\* (unfiltered or filtered to the type) and by readConfigFile, and decoding
\* the encoded name gives the name.
C7_RoundTrip ==
  (/\ last.op = "writeConfigFile"
   /\ last.wrote
   /\ Includes(last.type)
   /\ ValidName(last.name)) =>
    LET key == Key(last.type, last.name)
        path == Path(last.type, EncodeName(last.name))
    IN /\ DecodeName(EncodeName(last.name)) = last.name
       /\ Key(FileType(path), DecodeName(FileName(path))) = key
       /\ \A configType \in {NoFilter, last.type} :
            /\ key \in DOMAIN GetAllConfigFromFiles(configType)
            /\ GetAllConfigFromFiles(configType)[key] = last.content
       /\ ReadConfigFile(last.type, last.name) = last.content

\* a name with a ':' and a '.' was written and read back
W7_RoundTrip ==
  /\ last.op = "writeConfigFile"
  /\ last.wrote
  /\ Includes(last.type)
  /\ last.name = <<":", ".">>
  /\ GetAllConfigFromFiles(NoFilter)[Key(last.type, last.name)] = last.content

\* C8: when the promise of importAllConfig is resolved, no operation it
\* issued is still pending.
C8_Joined == (batch = "importAll" /\ result = "ok") => Idle

\* C9: in a batch, every operation that was issued can still take its next
\* step whatever became of the others, every operation past its read has
\* reached its provider, an export issues one operation per matching type,
\* and every operation that is done has had its effect.
C9_Isolation ==
  /\ \A k \in DOMAIN tasks :
       /\ tasks[k].pc = "read" => ENABLED TaskRead(k)
       /\ tasks[k].pc = "apply" => ENABLED TaskApply(k, TRUE)
       /\ tasks[k].pc = "export" => ENABLED ExportTask(k, TRUE, {})
       /\ (tasks[k].kind # "export" /\ tasks[k].pc \in {"apply", "done", "failed"}
             /\ tasks[k].name # Undefined)
            => CallsFor("importSingle", tasks[k]) # {}
       /\ (tasks[k].kind # "export" /\ tasks[k].pc = "done")
            => /\ k \in DOMAIN db[tasks[k].type]
               /\ db[tasks[k].type][k] = tasks[k].content
       /\ (tasks[k].kind = "export" /\ tasks[k].pc = "done")
            => \A x \in DOMAIN db[k] :
                 (x \notin cfg.exclude /\ x \notin failedIO)
                   => ReadConfigFile(k, SplitRest(x)) = db[k][x]
  /\ batch = "exportAll" => DOMAIN tasks = MatchingTypes(filter)

\* one operation of a batch failed and another one of the same batch is done
W9_Isolation ==
  \E k1, k2 \in DOMAIN tasks :
    k1 # k2 /\ tasks[k1].pc = "failed" /\ tasks[k2].pc = "done"

\* C10: a batch that reports plain success had no failed operation and no
\* failed file write, and a writeConfigFile that returns normally for a key
\* that is not excluded has written its file.
C10_FailuresReported ==
  /\ result = "ok" => /\ \A k \in DOMAIN tasks : tasks[k].pc # "failed"
                      /\ failedIO = {}
  /\ (last.op = "writeConfigFile" /\ Key(last.type, last.name) \notin cfg.exclude)
       => last.wrote \/ last.threw

-----------------------------------------------------------------------------
(* C11..C18 *)

\* what a direct importSingleConfig of a key that is not excluded has asked
\* of the providers so far
ImportSingleCalls ==
  (batch = "importSingle" /\ Key(last.type, last.name) \notin cfg.exclude) =>
    LET k == Key(last.type, last.name)
        path == Path(last.type, EncodeName(last.name))
        parsed == IF path \in DOMAIN files THEN ParseOrNull(files[path])
                  ELSE Null
    IN /\ DOMAIN tasks = {k}
       /\ tasks[k].pc = "read" => calls = EmptyBag
       /\ tasks[k].pc # "read" =>
            calls = SetToBag({Call("importSingle", last.type, last.name,
                                   parsed)})

\* C11: importSingleConfig(type, name) of a key that is not excluded calls
\* importSingle of the provider of `type` exactly once, with the name as
\* given and the parsed content of the file {type}.{encode(name)}.json (null
\* when the file is absent or unparsable), whatever the database holds; it
\* calls no other provider, leaves the entries of the other types alone and
\* writes no file.
C11_ImportSingle ==
  [][batch' = "importSingle" =>
       /\ ImportSingleCalls'
       /\ files' = files
       /\ destExists' = destExists
       /\ \A u \in Types \ {last'.type} : db'[u] = db[u]]_vars

\* a direct importSingleConfig of a name with a ':' has handed the content
\* of its file to the provider
W11_ImportSingle ==
  /\ batch = "importSingle"
  /\ last.name = <<"a", ":", "b">>
  /\ AllDone
  /\ \E c \in BagToSet(calls) : c.content = "c1"

\* C12: every operation and every provider call of importAllConfig(t), t a
\* type, is of type t, and no step of it changes the database entries of
\* another type, even when the entries of that type differ between the files
\* and the database.
C12_TypeFilter ==
  [][(batch' = "importAll" /\ filter' # NoFilter) =>
       /\ \A k \in DOMAIN tasks' : tasks'[k].type = filter'
       /\ \A c \in BagToSet(calls') : c.type = filter'
       /\ \A u \in Types \ {filter'} : db'[u] = db[u]]_vars

\* importAllConfig of one type has applied its keys while the files and the
\* database still differ on a key of the other included type
W12_TypeFilter ==
  /\ batch = "importAll"
  /\ filter = T
  /\ tasks # EmptyMap
  /\ AllDone
  /\ calls # EmptyBag
  /\ WouldImport(U) # {}

\* C14: exportAllConfig(typeFilter) calls exportAll exactly once on the
\* provider of every included type that matches the filter (of every
\* included type when there is no filter) and on no other provider, and its
\* promise is resolved only when every one of these exportAll calls has
\* resolved.
C14_ExportAll ==
  batch = "exportAll" =>
    LET matching == {include[i] : i \in {j \in DOMAIN include :
                        filter = NoFilter \/ filter = include[j]}}
    IN /\ calls = SetToBag({Call("exportAll", type, <<>>, Null) :
                              type \in matching})
       /\ result = "ok" =>
            \A type \in matching :
              type \in DOMAIN tasks /\ tasks[type].pc = "done"

\* an exportAllConfig with no filter has resolved after the exportAll of
\* both included types wrote files
W14_ExportAll ==
  /\ batch = "exportAll"
  /\ filter = NoFilter
  /\ result = "ok"
  /\ Cardinality(DOMAIN tasks) = 2
  /\ \A type \in DOMAIN tasks :
       \E k \in DOMAIN db[type] : ReadConfigFile(type, SplitRest(k)) = db[type][k]

\* C17 as stated: neither a writeConfigFile whose file write fails nor a
\* deleteConfigFile whose file delete fails raises an error to its caller.
C17_FailuresDiscarded ==
  last.op \in {"writeConfigFile", "deleteConfigFile"} => ~last.threw

\* C17, amended: a writeConfigFile raises no error to its caller, whether
\* its file write failed or not; a deleteConfigFile raises the error of the
\* delete to its caller exactly when the key is not excluded and its file
\* does not exist.
C17_WriteFailuresDiscarded ==
  [][/\ last'.op = "writeConfigFile" => ~last'.threw
     /\ last'.op = "deleteConfigFile" =>
          LET key == Key(last'.type, last'.name)
              path == ReplaceAll(key, ":", "#") \o <<".">> \o Json
          IN last'.threw <=> (key \notin cfg.exclude /\ path \notin DOMAIN files)
    ]_vars

\* a deleteConfigFile of a key with a ':' threw while other files existed
W17_DeleteThrew ==
  /\ last.op = "deleteConfigFile"
  /\ last.threw
  /\ \E i \in 1..Len(last.name) : last.name[i] = ":"
  /\ files # EmptyMap

\* C13: no entry of a type outside config.include is in the snapshot that
\* getAllConfigFromFiles or getAllConfigFromDatabase builds, whatever the
\* filter, the files and the database entries of that type, and no operation
\* and no provider call of importAllConfig is of such a type.
C13_IncludedTypesOnly ==
  LET Listed(type) == \E i \in DOMAIN include : include[i] = type
  IN /\ batch \in {"getAllConfigFromFiles", "getAllConfigFromDatabase"} =>
          \A k \in DOMAIN snapshot : Listed(SplitType(k))
     /\ batch = "getAllConfigFromDatabase" =>
          \A c \in BagToSet(calls) : Listed(c.type)
     /\ batch = "importAll" =>
          /\ \A k \in DOMAIN tasks : Listed(tasks[k].type)
          /\ \A c \in BagToSet(calls) : Listed(c.type)

\* an importAllConfig has finished its operations while a readable file and
\* a database entry of a type outside config.include existed
W13_IncludedTypesOnly ==
  /\ batch = "importAll"
  /\ tasks # EmptyMap
  /\ AllDone
  /\ Path(X, <<"a">>) \in DOMAIN files
  /\ ParseOrNull(files[Path(X, <<"a">>)]) # Null
  /\ db[X] # EmptyMap

\* C18: readConfigFile(type, name) never throws and yields null when the
\* file is absent or does not parse; getAllConfigFromFiles yields the empty
\* snapshot, with no call to the file system, when the destination does not
\* exist; neither of them changes a file, the destination or a database
\* entry.
C18_ReadersTotal ==
  [][/\ last'.op = "readConfigFile" =>
          LET path == Path(last'.type, ReplaceAll(last'.name, ":", "#"))
              readable == {Stringify(c, m) : c \in Contents, m \in BOOLEAN}
          IN /\ ~last'.threw
             /\ (path \notin DOMAIN files \/ files[path] \notin readable)
                  => last'.content = Null
             /\ files' = files /\ destExists' = destExists /\ db' = db
     /\ batch' = "getAllConfigFromFiles" =>
          /\ ~destExists => (snapshot' = EmptyMap /\ calls' = EmptyBag)
          /\ files' = files /\ destExists' = destExists /\ db' = db
    ]_vars

\* readConfigFile has yielded null for a file that exists and does not parse
W18_ReadersTotal ==
  /\ last.op = "readConfigFile"
  /\ last.content = Null
  /\ Path(last.type, EncodeName(last.name)) \in DOMAIN files
  /\ files[Path(last.type, EncodeName(last.name))] = <<"garbage">>

\* C15: when two included types both return a composite key, the snapshot
\* getAllConfigFromDatabase resolves with holds, for that key, the content
\* of the type that comes later in config.include, in whatever order the
\* providers resolved.
C15_LaterTypeWins ==
  (batch = "getAllConfigFromDatabase" /\ result = "ok") =>
    \A i, j \in DOMAIN include :
      (i < j /\ include[i] \in DOMAIN tasks /\ include[j] \in DOMAIN tasks) =>
        \A k \in DOMAIN db[include[i]] \cap DOMAIN db[include[j]] :
          k \in DOMAIN snapshot /\ snapshot[k] = db[include[j]][k]

\* C16: in every interleaving of the providers' completions, the keys of
\* every provider that has resolved are in databaseConfigs, and the snapshot
\* getAllConfigFromDatabase resolves with has exactly the keys returned by
\* the providers of the matching included types.
C16_NoLostUpdate ==
  batch = "getAllConfigFromDatabase" =>
    LET matching == {include[i] : i \in {j \in DOMAIN include :
                        filter = NoFilter \/ filter = include[j]}}
    IN /\ \A type \in DOMAIN tasks :
            tasks[type].pc = "done" => DOMAIN db[type] \subseteq DOMAIN snapshot
       /\ result = "ok" =>
            DOMAIN snapshot = UNION {DOMAIN db[type] : type \in matching}

\* getAllConfigFromDatabase has resolved after two providers that hold
\* different keys resolved one after the other
W16_NoLostUpdate ==
  /\ batch = "getAllConfigFromDatabase"
  /\ result = "ok"
  /\ Cardinality(DOMAIN tasks) = 2
  /\ \A type \in DOMAIN tasks : db[type] # EmptyMap
  /\ DOMAIN db[T] \cap DOMAIN db[U] = {}
  /\ Cardinality(DOMAIN snapshot) = 2

=============================================================================
